---- MODULE Spec2Model ----
(***************************************************************************)
(* Room / session coordination layer of the letstalk signalling servers.   *)
(*                                                                         *)
(* The repository holds four variants of the same socket.io server:        *)
(*   "server"  src/server.js            names from the client, audio relay *)
(*   "webrtc"  src/unnamed/part_002     names from the client, signalling  *)
(*   "walkie"  src/unnamed/part_001     no names, audio relay              *)
(*             (src/unnamed/part_000 lines 28-135 is the same code)        *)
(*   "named"   src/unnamed/part_000     names generated at connect, audio  *)
(*             (lines 250-386)                                             *)
(* One variant runs per process; `variant` is fixed by Init.               *)
(*                                                                         *)
(* Not modelled: createdAt (never read), the audio / sdp payloads (opaque, *)
(* never read), console.log, the HTTP routes.                              *)
(***************************************************************************)
EXTENDS Integers, Sequences, FiniteSets, TLC

VARIABLES
    variant,     \* which server file is running
    sockets,     \* connection id -> "new" | "open" | "closed" (socket.io)
    rooms,       \* const rooms = new Map(): room id -> [users, creator]
    roomOrder,   \* insertion order of the keys of `rooms` (Map iteration order)
    userNames,   \* const userNames = new Map(): connection id -> name
    userName,    \* "named" only: const userName of each connection's closure
    groups,      \* socket.io adapter rooms: room id -> set of joined sockets
    out,         \* the emit calls of the last handler, in call order
    last         \* the event the last handler was invoked with

vars == <<variant, sockets, rooms, roomOrder, userNames, userName, groups, out, last>>

----------------------------------------------------------------------------
(* Bounds and input sets *)

\* Connections whose events are explored.
Active == {"c1", "c2"}

\* Connections that only sit in a room (they are connected and receive, but
\* send nothing after the initial state of SpecCap).
Fillers == {"f1", "f2", "f3", "f4", "f5", "f6", "f7", "f8", "f9"}

FillerSeq == <<"f1", "f2", "f3", "f4", "f5", "f6", "f7", "f8", "f9">>

Conns == Active \cup Fillers

\* Values generateRoomId() may return (it never checks the room table).
RoomIds == {"r1", "r2"}

\* data.userName of create-room / join-room: "" stands for a missing or
\* empty name (both are falsy in `userName || 'Anonymous'`).
RequestedNames == {"", "Ann"}

\* Values of generateUserName() that are explored.
GeneratedNames == {"Happy Tiger"}

\* How many duplicate entries (re-joins of a connection already listed) the
\* clients may have created in the room table at any one time.
MaxDup == 1

Variants == {"server", "webrtc", "walkie", "named"}

Undefined == "undefined"

NoRoom == "-"

NoConn == "-"

----------------------------------------------------------------------------
(* Helpers *)

Range(s) == {s[i] : i \in 1..Len(s)}

\* Array.prototype.filter(id => id !== socket.id)
Without(users, c) == SelectSeq(users, LAMBDA id : id # c)

\* Map.prototype.get
Get(map, k) == IF k \in DOMAIN map THEN map[k] ELSE Undefined

\* Map.prototype.set
MapSet(map, k, v) == [x \in DOMAIN map \cup {k} |-> IF x = k THEN v ELSE map[x]]

\* Map.prototype.delete
MapDelete(map, k) == [x \in DOMAIN map \ {k} |-> map[x]]

\* Insertion order after Map.prototype.set: an existing key keeps its place.
OrderSet(ord, k) == IF k \in Range(ord) THEN ord ELSE Append(ord, k)

OrderDelete(ord, k) == SelectSeq(ord, LAMBDA x : x # k)

HasNames(v) == v \in {"server", "webrtc", "named"}

ClientNames(v) == v \in {"server", "webrtc"}

HasAudio(v) == v \in {"server", "walkie", "named"}

HasSignal(v) == v = "webrtc"

\* Number of list entries that repeat an earlier entry, over all rooms.
RECURSIVE SumDup(_, _)
SumDup(rms, ids) ==
    IF ids = {} THEN 0
    ELSE LET r == CHOOSE x \in ids : TRUE
         IN  (Len(rms[r].users) - Cardinality(Range(rms[r].users)))
             + SumDup(rms, ids \ {r})

DupCount(rms) == SumDup(rms, DOMAIN rms)

----------------------------------------------------------------------------
(* Emission: socket.emit and socket.to(x).emit *)

\* One emit call. `to` is the set of sockets it is delivered to.
\* `via` is the adapter room of socket.to(via), NoRoom for socket.emit; the
\* other fields are the payload (`from` is also the userId of user-joined
\* and user-left); a field the payload lacks holds Undefined / NoRoom / <<>>.
Event(ev, to, via, from, rid, name, users, creator, msg) ==
    [ev |-> ev, to |-> to, via |-> via, from |-> from, roomId |-> rid,
     userName |-> name, users |-> users, isCreator |-> creator, message |-> msg]

\* Mutant: the private room of a socket outlives its disconnect.
AdapterRoomKeepsClosed(grp, socks, x) ==
    IF x \in DOMAIN grp THEN grp[x]
    ELSE IF x \in DOMAIN socks THEN {x}
    ELSE {}

\* The sockets of adapter room x: a room id names its broadcast group, a
\* connection id names the private room of that socket while it is open.
AdapterRoom(grp, socks, x) ==
    IF x \in DOMAIN grp THEN grp[x]
    ELSE IF x \in DOMAIN socks /\ socks[x] = "open" THEN {x}
    ELSE {}

\* socket.to(x): every socket of adapter room x except the sender.
BroadcastTo(grp, socks, x, c) == AdapterRoom(grp, socks, x) \ {c}

\* socket.emit('error', { message })
ErrorEvent(c, msg) ==
    Event("error", {c}, NoRoom, NoConn, NoRoom, Undefined, <<>>, FALSE, msg)

----------------------------------------------------------------------------
(* The handlers, as functions of the state S they run in.  S is a record of  *)
(* the state variables; a handler returns the maps it may write and `out`.  *)

EmptyMap == [x \in {} |-> Undefined]

State(v, socks, rms, ord, names, closure, grp) ==
    [variant |-> v, sockets |-> socks, rooms |-> rms, roomOrder |-> ord,
     userNames |-> names, userName |-> closure, groups |-> grp]

Result(rms, ord, names, grp, events) ==
    [rooms |-> rms, roomOrder |-> ord, userNames |-> names, groups |-> grp,
     out |-> events]

\* userName || 'Anonymous'
ResolveName(name) == IF name = "" THEN "Anonymous" ELSE name

\* The userName a handler puts in room-created / room-joined / user-joined.
OwnName(S, names, c) ==
    IF ClientNames(S.variant) THEN Get(names, c)
    ELSE IF S.variant = "named" THEN S.userName[c]
    ELSE Undefined

\* Mutant: an existing registry entry is kept instead of overwritten.
RegisterNameKeepFirst(S, c, name) ==
    IF ClientNames(S.variant) /\ c \notin DOMAIN S.userNames
    THEN MapSet(S.userNames, c, ResolveName(name))
    ELSE S.userNames

\* userNames.set(socket.id, userName || 'Anonymous') of create-room / join-room
RegisterName(S, c, name) ==
    IF ClientNames(S.variant) THEN MapSet(S.userNames, c, ResolveName(name))
    ELSE S.userNames

\* socket.join(roomId)
SocketJoin(grp, rid, c) == [grp EXCEPT ![rid] = @ \cup {c}]

\* socket.leave(roomId)
SocketLeave(grp, rid, c) == [grp EXCEPT ![rid] = @ \ {c}]

\* socket.on('create-room'), with roomId the value generateRoomId() returned
CreateRoomHandler(S, c, name, roomId) ==
    LET names1 == RegisterName(S, c, name)
        rooms1 == MapSet(S.rooms, roomId, [users |-> <<c>>, creator |-> c])
        order1 == OrderSet(S.roomOrder, roomId)
        groups1 == SocketJoin(S.groups, roomId, c)
    IN  Result(rooms1, order1, names1, groups1,
               << Event("room-created", {c}, NoRoom, NoConn, roomId,
                        OwnName(S, names1, c), <<>>, FALSE, "") >>)

Capacity == 10

\* Mutant: the capacity test written with > instead of >=.
RoomIsFullOffByOne(room) == Len(room.users) > Capacity

\* Mutant: the capacity test refuses the tenth member.
RoomIsFullEarly(room) == Len(room.users) >= Capacity - 1

\* if (room.users.length >= 10)
RoomIsFull(room) == Len(room.users) >= Capacity

\* Mutant: the name is registered before the room is looked up.
JoinRejectedAfterRegister(S, c, name, msg) ==
    Result(S.rooms, S.roomOrder, RegisterName(S, c, name), S.groups,
           << ErrorEvent(c, msg) >>)

\* socket.emit('error', { message }); return;  -- nothing has been written yet
JoinRejected(S, c, name, msg) ==
    Result(S.rooms, S.roomOrder, S.userNames, S.groups, << ErrorEvent(c, msg) >>)

\* Mutant: the joiner is put at the front of the list.
PushUserFront(users, c) == <<c>> \o users

\* room.users.push(socket.id)
PushUser(users, c) == Append(users, c)

\* The users field of room-joined.
UsersPayload(S, names, users, c) ==
    IF S.variant = "walkie"
    THEN LET others == Without(users, c)
         IN  [i \in 1..Len(others) |-> [id |-> others[i], name |-> Undefined]]
    ELSE [i \in 1..Len(users) |-> [id |-> users[i], name |-> Get(names, users[i])]]

\* The two emits of a successful join-room, in the order the variant makes them.
JoinEmits(S, roomJoined, userJoined) ==
    IF ClientNames(S.variant) THEN <<roomJoined, userJoined>>
    ELSE <<userJoined, roomJoined>>

\* socket.on('join-room')
JoinRoomHandler(S, c, roomId, name) ==
    IF roomId \notin DOMAIN S.rooms
    THEN JoinRejected(S, c, name, "Room not found")
    ELSE IF RoomIsFull(S.rooms[roomId])
    THEN JoinRejected(S, c, name, "Room is full")
    ELSE
    LET room == S.rooms[roomId]
        names1 == RegisterName(S, c, name)
        users1 == PushUser(room.users, c)
        rooms1 == [S.rooms EXCEPT ![roomId].users = users1]
        groups1 == SocketJoin(S.groups, roomId, c)
        roomJoined == Event("room-joined", {c}, NoRoom, NoConn, roomId,
                            OwnName(S, names1, c),
                            UsersPayload(S, names1, users1, c),
                            room.creator = c, "")
        userJoined == Event("user-joined",
                            BroadcastTo(groups1, S.sockets, roomId, c), roomId,
                            c, NoRoom, OwnName(S, names1, c), <<>>, FALSE, "")
    IN  Result(rooms1, S.roomOrder, names1, groups1,
               JoinEmits(S, roomJoined, userJoined))

\* socket.on('audio')
AudioHandler(S, c, roomId) ==
    Result(S.rooms, S.roomOrder, S.userNames, S.groups,
           << Event("audio", BroadcastTo(S.groups, S.sockets, roomId, c), roomId,
                    c, NoRoom,
                    IF HasNames(S.variant) THEN Get(S.userNames, c) ELSE Undefined,
                    <<>>, FALSE, "") >>)

\* socket.on('webrtc-offer' | 'webrtc-answer' | 'webrtc-ice-candidate')
SignalHandler(S, kind, c, to) ==
    Result(S.rooms, S.roomOrder, S.userNames, S.groups,
           << Event(kind, BroadcastTo(S.groups, S.sockets, to, c), to,
                    c, NoRoom, Undefined, <<>>, FALSE, "") >>)

\* socket.to(roomId).emit('user-left', { userId, userName })
UserLeft(S, grp, roomId, c, name) ==
    Event("user-left", BroadcastTo(grp, S.sockets, roomId, c), roomId,
          c, NoRoom, IF HasNames(S.variant) THEN name ELSE Undefined,
          <<>>, FALSE, "")

\* Mutant: the empty room is not deleted.
RemoveUserKeepEmpty(rms, ord, roomId, c) ==
    [rooms |-> [rms EXCEPT ![roomId].users = Without(rms[roomId].users, c)],
     roomOrder |-> ord]

\* Mutant: the filtered list is not stored back.
RemoveUserNoFilter(rms, ord, roomId, c) == [rooms |-> rms, roomOrder |-> ord]

\* Mutant: the room is deleted whether or not members remain.
RemoveUserAlwaysDelete(rms, ord, roomId, c) ==
    [rooms |-> MapDelete(rms, roomId), roomOrder |-> OrderDelete(ord, roomId)]

\* Mutant: when members remain, the first of them becomes the creator.
RemoveUserPromote(rms, ord, roomId, c) ==
    LET users1 == Without(rms[roomId].users, c)
    IN  IF Len(users1) = 0
        THEN [rooms |-> MapDelete(rms, roomId), roomOrder |-> OrderDelete(ord, roomId)]
        ELSE [rooms |-> [rms EXCEPT ![roomId] = [users |-> users1, creator |-> users1[1]]],
              roomOrder |-> ord]

\* room.users = room.users.filter(...); if (room.users.length === 0)
\* rooms.delete(roomId): the room table and its key order afterwards.
RemoveUser(rms, ord, roomId, c) ==
    LET users1 == Without(rms[roomId].users, c)
    IN  IF Len(users1) = 0
        THEN [rooms |-> MapDelete(rms, roomId), roomOrder |-> OrderDelete(ord, roomId)]
        ELSE [rooms |-> [rms EXCEPT ![roomId].users = users1], roomOrder |-> ord]

\* userNames.delete(socket.id) of leave-room / disconnect
ForgetName(S, c) ==
    IF HasNames(S.variant) THEN MapDelete(S.userNames, c) ELSE S.userNames

\* Mutant: the name is deleted only when the room was found.
LeaveRoomForgetIfFound(S, c, roomId) ==
    LET groups1 == SocketLeave(S.groups, roomId, c)
    IN  IF roomId \in DOMAIN S.rooms
        THEN LET t == RemoveUser(S.rooms, S.roomOrder, roomId, c)
             IN  Result(t.rooms, t.roomOrder, ForgetName(S, c), groups1,
                        << UserLeft(S, groups1, roomId, c, Get(S.userNames, c)) >>)
        ELSE Result(S.rooms, S.roomOrder, S.userNames, groups1, <<>>)

\* socket.on('leave-room')
LeaveRoomHandler(S, c, roomId) ==
    LET groups1 == SocketLeave(S.groups, roomId, c)
    IN  IF roomId \in DOMAIN S.rooms
        THEN LET t == RemoveUser(S.rooms, S.roomOrder, roomId, c)
             IN  Result(t.rooms, t.roomOrder, ForgetName(S, c), groups1,
                        << UserLeft(S, groups1, roomId, c, Get(S.userNames, c)) >>)
        ELSE Result(S.rooms, S.roomOrder, ForgetName(S, c), groups1, <<>>)

\* Mutant: the scan stops after the first room that held the connection.
DisconnectScanFirstOnly(S, grp, c, name, keys, rms, ord, events) ==
    LET hit == {i \in 1..Len(keys) : c \in Range(rms[keys[i]].users)}
    IN  IF hit = {} THEN [rooms |-> rms, roomOrder |-> ord, out |-> events]
        ELSE LET i == CHOOSE x \in hit : \A y \in hit : x <= y
                 t == RemoveUser(rms, ord, keys[i], c)
             IN  [rooms |-> t.rooms, roomOrder |-> t.roomOrder,
                  out |-> Append(events, UserLeft(S, grp, keys[i], c, name))]

\* Mutant: user-left is emitted to every room, whether it held the
\* connection or not.
DisconnectScanNoIncludes(S, grp, c, name, keys, rms, ord, events) ==
    LET hit == {r \in Range(keys) : c \in Range(rms[r].users)}
        gone == {r \in hit : Without(rms[r].users, c) = <<>>}
    IN  [rooms |-> [r \in DOMAIN rms \ gone |->
                       [rms[r] EXCEPT !.users = Without(rms[r].users, c)]],
         roomOrder |-> SelectSeq(ord, LAMBDA r : r \notin gone),
         out |-> events \o [i \in 1..Len(keys) |-> UserLeft(S, grp, keys[i], c, name)]]

\* for (const [roomId, room] of rooms.entries()) { if (room.users.includes(...)) ... }
\* `keys` are the keys still to visit: deleting the current entry of a Map
\* while iterating it does not disturb the visit of the later entries.
RECURSIVE DisconnectScan(_, _, _, _, _, _, _, _)
DisconnectScan(S, grp, c, name, keys, rms, ord, events) ==
    IF keys = <<>> THEN [rooms |-> rms, roomOrder |-> ord, out |-> events]
    ELSE LET roomId == Head(keys)
         IN  IF c \in Range(rms[roomId].users)
             THEN LET t == RemoveUser(rms, ord, roomId, c)
                  IN  DisconnectScan(S, grp, c, name, Tail(keys), t.rooms, t.roomOrder,
                                     Append(events, UserLeft(S, grp, roomId, c, name)))
             ELSE DisconnectScan(S, grp, c, name, Tail(keys), rms, ord, events)

\* socket.io takes a disconnected socket out of every adapter room.
LeaveAll(grp, c) == [r \in DOMAIN grp |-> grp[r] \ {c}]

\* socket.on('disconnect')
DisconnectHandler(S, c) ==
    LET groups1 == LeaveAll(S.groups, c)
        t == DisconnectScan(S, groups1, c, Get(S.userNames, c), S.roomOrder,
                            S.rooms, S.roomOrder, <<>>)
    IN  Result(t.rooms, t.roomOrder, ForgetName(S, c), groups1, t.out)

----------------------------------------------------------------------------
(* The state machine *)

Current == State(variant, sockets, rooms, roomOrder, userNames, userName, groups)

Input(op, c, roomId, name, to) ==
    [op |-> op, c |-> c, roomId |-> roomId, userName |-> name, to |-> to]

\* The names a client of this variant can send with create-room / join-room.
NamesSent == IF ClientNames(variant) THEN RequestedNames ELSE {""}

\* The handler's writes become the next state.
Commit(r) ==
    /\ rooms' = r.rooms
    /\ roomOrder' = r.roomOrder
    /\ userNames' = r.userNames
    /\ groups' = r.groups
    /\ out' = r.out

\* State after construction: empty maps, nobody connected.
Init ==
    /\ variant \in Variants
    /\ sockets = [c \in Conns |-> "new"]
    /\ rooms = EmptyMap
    /\ roomOrder = <<>>
    /\ userNames = EmptyMap
    /\ userName = [c \in Conns |-> Undefined]
    /\ groups = [r \in RoomIds |-> {}]
    /\ out = <<>>
    /\ last = Input("none", NoConn, NoRoom, "", NoConn)

\* The name each variant holds for a connection that sent no name.
DefaultName(v) ==
    IF ClientNames(v) THEN "Anonymous"
    ELSE IF v = "named" THEN "Happy Tiger"
    ELSE Undefined

\* The state after f1 created a room that got id r1 and f2..f9 joined it,
\* none of them sending a name: a room one short of its capacity.
InitCap ==
    /\ variant \in Variants
    /\ sockets = [c \in Conns |-> IF c \in Fillers THEN "open" ELSE "new"]
    /\ rooms = [r \in {"r1"} |-> [users |-> FillerSeq, creator |-> "f1"]]
    /\ roomOrder = <<"r1">>
    /\ userNames = IF HasNames(variant)
                   THEN [c \in Fillers |-> DefaultName(variant)]
                   ELSE EmptyMap
    /\ userName = [c \in Conns |-> IF variant = "named" /\ c \in Fillers
                                   THEN DefaultName(variant) ELSE Undefined]
    /\ groups = [r \in RoomIds |-> IF r = "r1" THEN Fillers ELSE {}]
    /\ out = <<>>
    /\ last = Input("none", NoConn, NoRoom, "", NoConn)

\* io.on('connection')
Connect(c) ==
    /\ sockets[c] = "new"
    /\ sockets' = [sockets EXCEPT ![c] = "open"]
    /\ IF variant = "named"
       THEN \E n \in GeneratedNames :
               /\ userName' = [userName EXCEPT ![c] = n]
               /\ userNames' = MapSet(userNames, c, n)
       ELSE UNCHANGED <<userName, userNames>>
    /\ out' = <<>>
    /\ last' = Input("connect", c, NoRoom, "", NoConn)
    /\ UNCHANGED <<variant, rooms, roomOrder, groups>>

CreateRoom(c, name, roomId) ==
    /\ sockets[c] = "open"
    /\ name \in NamesSent
    /\ Commit(CreateRoomHandler(Current, c, name, roomId))
    /\ last' = Input("create-room", c, roomId, name, NoConn)
    /\ UNCHANGED <<variant, sockets, userName>>

JoinRoom(c, roomId, name) ==
    /\ sockets[c] = "open"
    /\ name \in NamesSent
    /\ (roomId \in DOMAIN rooms /\ c \in Range(rooms[roomId].users))
          => DupCount(rooms) < MaxDup
    /\ Commit(JoinRoomHandler(Current, c, roomId, name))
    /\ last' = Input("join-room", c, roomId, name, NoConn)
    /\ UNCHANGED <<variant, sockets, userName>>

Audio(c, roomId) ==
    /\ sockets[c] = "open"
    /\ HasAudio(variant)
    /\ Commit(AudioHandler(Current, c, roomId))
    /\ last' = Input("audio", c, roomId, "", NoConn)
    /\ UNCHANGED <<variant, sockets, userName>>

Signal(kind, c, to) ==
    /\ sockets[c] = "open"
    /\ HasSignal(variant)
    /\ Commit(SignalHandler(Current, kind, c, to))
    /\ last' = Input(kind, c, NoRoom, "", to)
    /\ UNCHANGED <<variant, sockets, userName>>

WebrtcOffer(c, to) == Signal("webrtc-offer", c, to)

WebrtcAnswer(c, to) == Signal("webrtc-answer", c, to)

WebrtcIceCandidate(c, to) == Signal("webrtc-ice-candidate", c, to)

LeaveRoom(c, roomId) ==
    /\ sockets[c] = "open"
    /\ Commit(LeaveRoomHandler(Current, c, roomId))
    /\ last' = Input("leave-room", c, roomId, "", NoConn)
    /\ UNCHANGED <<variant, sockets, userName>>

Disconnect(c) ==
    /\ sockets[c] = "open"
    /\ sockets' = [sockets EXCEPT ![c] = "closed"]
    /\ Commit(DisconnectHandler(Current, c))
    /\ last' = Input("disconnect", c, NoRoom, "", NoConn)
    /\ UNCHANGED <<variant, userName>>

\* The `to` values of signalling events that are explored: a connection id
\* (of the sender itself or of a peer that is open, closed or not yet
\* connected) and a room id.
SignalTargets == {"c1", "r1"}

Next ==
    \/ \E c \in Active : Connect(c)
    \/ \E c \in Active, name \in RequestedNames, roomId \in RoomIds :
          CreateRoom(c, name, roomId)
    \/ \E c \in Active, roomId \in RoomIds, name \in RequestedNames :
          JoinRoom(c, roomId, name)
    \/ \E c \in Active, roomId \in RoomIds : Audio(c, roomId)
    \/ \E c \in Active, to \in SignalTargets : WebrtcOffer(c, to)
    \/ \E c \in Active, to \in SignalTargets : WebrtcAnswer(c, to)
    \/ \E c \in Active, to \in SignalTargets : WebrtcIceCandidate(c, to)
    \/ \E c \in Active, roomId \in RoomIds : LeaveRoom(c, roomId)
    \/ \E c \in Active : Disconnect(c)

Spec == Init /\ [][Next]_vars

SpecCap == InitCap /\ [][Next]_vars

----------------------------------------------------------------------------
(* Properties *)

\* The state the next handler runs in.
CurrentNext ==
    State(variant', sockets', rooms', roomOrder', userNames', userName', groups')

\* How many emit calls of `events` named ev, with userId / from = from, were
\* delivered to connection c.
Received(events, c, ev, from) ==
    Cardinality({i \in 1..Len(events) :
                    events[i].ev = ev /\ events[i].from = from /\ c \in events[i].to})

\* The emit calls named ev.
Emitted(events, ev) == {i \in 1..Len(events) : events[i].ev = ev}

\* C1: after any sequence of events no live room has more than 10 members,
\* and a join-room to a room that has 10 members emits only the error
\* 'Room is full' to the requester and leaves the member list as it was.
C1_CapacityNeverExceeded ==
    [][ /\ \A r \in DOMAIN rooms' : Len(rooms'[r].users) <= 10
        /\ (/\ last'.op = "join-room"
            /\ last'.roomId \in DOMAIN rooms
            /\ Len(rooms[last'.roomId].users) = 10)
           => /\ out' = << ErrorEvent(last'.c, "Room is full") >>
              /\ last'.roomId \in DOMAIN rooms'
              /\ rooms'[last'.roomId].users = rooms[last'.roomId].users ]_vars

\* A join-room was just refused by a room that holds 10 members.
C1_Witness ==
    /\ last.op = "join-room"
    /\ out = << ErrorEvent(last.c, "Room is full") >>
    /\ last.roomId \in DOMAIN rooms
    /\ Len(rooms[last.roomId].users) = 10

\* C2: after every handler, no room of the room table has an empty member
\* list (a leave-room or disconnect that removes the last member deletes
\* the room in the same handler).
C2_NoEmptyRoom == \A r \in DOMAIN rooms : Len(rooms[r].users) > 0

\* A leave-room just found its room (it emitted user-left) and the room is
\* gone: the leaver was its last member.
C2_Witness ==
    /\ last.op = "leave-room"
    /\ Emitted(out, "user-left") # {}
    /\ last.roomId \notin DOMAIN rooms

\* C3: a join-room naming a room id that is not in the room table emits the
\* error 'Room not found' to the requester and changes neither the room
\* table, nor any member list, nor the name registry, nor a broadcast group.
C3_JoinUnknownRoomNoSideEffect ==
    [][ (last'.op = "join-room" /\ last'.roomId \notin DOMAIN rooms)
        => /\ out' = << ErrorEvent(last'.c, "Room not found") >>
           /\ UNCHANGED <<rooms, roomOrder, userNames, groups>> ]_vars

\* A join-room that carried a name was just refused with 'Room not found',
\* and the requester has no registry entry.
C3_Witness ==
    /\ last.op = "join-room"
    /\ last.userName = "Ann"
    /\ out = << ErrorEvent(last.c, "Room not found") >>
    /\ last.c \notin DOMAIN userNames

\* C4: for a successful join-room, in every variant, room-joined is emitted
\* to the joiner before user-joined is emitted to any other member.
C4_RoomJoinedBeforeUserJoined ==
    last.op = "join-room"
    => \A i \in Emitted(out, "room-joined"), j \in Emitted(out, "user-joined") :
          out[j].to # {} => i < j

\* C5: a leave-room or disconnect that removes the last member of room R
\* takes R out of the room table, and a join-room for R processed next (by
\* any active connection, with any name) emits 'Room not found' and adds no
\* member.
C5_EmptiedRoomIsGone ==
    [][ \A r \in DOMAIN rooms :
          (/\ last'.op \in {"leave-room", "disconnect"}
           /\ last'.op = "leave-room" => last'.roomId = r
           /\ Range(rooms[r].users) = {last'.c})
          => /\ r \notin DOMAIN rooms'
             /\ \A c \in Active, name \in RequestedNames :
                   LET join == JoinRoomHandler(CurrentNext, c, r, name)
                   IN  /\ join.out = << ErrorEvent(c, "Room not found") >>
                       /\ join.rooms = rooms' ]_vars

\* A disconnect just notified nobody but emitted user-left for a room that
\* is gone: the connection was the last member of that room.
C5_Witness ==
    /\ last.op = "disconnect"
    /\ \E i \in Emitted(out, "user-left") : out[i].via \notin DOMAIN rooms

\* C6: running the disconnect handler again for the same connection emits no
\* user-left and leaves the room table and the name registry as the first
\* run left them.
C6_DisconnectIdempotent ==
    [][ last'.op = "disconnect"
        => LET again == DisconnectHandler(CurrentNext, last'.c)
           IN  /\ Emitted(again.out, "user-left") = {}
               /\ again.rooms = rooms'
               /\ again.roomOrder = roomOrder'
               /\ again.userNames = userNames' ]_vars

\* A disconnect just emitted user-left to a remaining member.
C6_Witness ==
    /\ last.op = "disconnect"
    /\ \E i \in Emitted(out, "user-left") : out[i].to # {}

\* C7: when a member s of room R sends audio naming R, every other member of
\* R receives exactly one audio with from = s, s receives none, and no
\* connection outside R's member list receives it.
C7_AudioToMembersOnly ==
    (/\ last.op = "audio"
     /\ last.roomId \in DOMAIN rooms
     /\ last.c \in Range(rooms[last.roomId].users))
    => \A c \in Conns :
          Received(out, c, "audio", last.c) =
             IF c \in Range(rooms[last.roomId].users) \ {last.c} THEN 1 ELSE 0

\* The users field room-joined must carry: every member in list order, each
\* with its id and a display name.
C8_FullList(r) ==
    /\ Len(out[r].users) = Len(rooms[last.roomId].users)
    /\ \A k \in 1..Len(out[r].users) :
          /\ out[r].users[k].id = rooms[last.roomId].users[k]
          /\ out[r].users[k].name # Undefined
          /\ out[r].users[k].name = Get(userNames, out[r].users[k].id)

\* C8: on a successful join-room by c to R, room-joined lists every member of
\* R including c, in list order, each with id and display name; every other
\* member receives exactly one user-joined with userId = c, and c none.
C8_JoinSnapshotAndBroadcast ==
    (last.op = "join-room" /\ Emitted(out, "room-joined") # {})
    => /\ \A r \in Emitted(out, "room-joined") : out[r].to = {last.c} /\ C8_FullList(r)
       /\ \A m \in Range(rooms[last.roomId].users) \ {last.c} :
             Received(out, m, "user-joined", last.c) = 1
       /\ Received(out, last.c, "user-joined", last.c) = 0

\* C9: a create-room by c adds exactly one room, with member list [c] and
\* creator c, adds c to its broadcast group and emits exactly one event,
\* room-created with the new id, to c only.
C9_CreateAddsOneRoom ==
    [][ last'.op = "create-room"
        => /\ last'.roomId \notin DOMAIN rooms
           /\ DOMAIN rooms' = DOMAIN rooms \cup {last'.roomId}
           /\ \A r \in DOMAIN rooms : rooms'[r] = rooms[r]
           /\ rooms'[last'.roomId] = [users |-> <<last'.c>>, creator |-> last'.c]
           /\ last'.c \in groups'[last'.roomId]
           /\ Len(out') = 1
           /\ out'[1].ev = "room-created"
           /\ out'[1].roomId = last'.roomId
           /\ out'[1].to = {last'.c} ]_vars

\* C10: when member c sends leave-room for R and other members remain, R
\* stays in the room table with its list equal to the old list without c,
\* every remaining member receives exactly one user-left with userId = c,
\* and c receives none.
C10_LeaveNotifiesRemaining ==
    [][ (/\ last'.op = "leave-room"
         /\ last'.roomId \in DOMAIN rooms
         /\ last'.c \in Range(rooms[last'.roomId].users)
         /\ Range(rooms[last'.roomId].users) # {last'.c})
        => /\ last'.roomId \in DOMAIN rooms'
           /\ rooms'[last'.roomId].users = Without(rooms[last'.roomId].users, last'.c)
           /\ \A m \in Range(rooms'[last'.roomId].users) :
                 Received(out', m, "user-left", last'.c) = 1
           /\ Received(out', last'.c, "user-left", last'.c) = 0 ]_vars

\* A leave-room just left a room that still has several members, all of
\* them notified.
C10_Witness ==
    /\ last.op = "leave-room"
    /\ last.roomId \in DOMAIN rooms
    /\ Cardinality(Range(rooms[last.roomId].users)) >= 2
    /\ \E i \in Emitted(out, "user-left") :
          out[i].to = Range(rooms[last.roomId].users)

\* How many user-left calls with userId = from, broadcast to room r, were
\* delivered to connection c.
LeftReceived(events, c, r, from) ==
    Cardinality({i \in Emitted(events, "user-left") :
                    events[i].via = r /\ events[i].from = from /\ c \in events[i].to})

\* C11: after a disconnect of c, c is in no member list, every room whose
\* only member was c is deleted, and the name registry has no entry for c,
\* whatever number of rooms c was in.
C11_DisconnectRemovesEverywhere ==
    [][ last'.op = "disconnect"
        => /\ \A r \in DOMAIN rooms' : last'.c \notin Range(rooms'[r].users)
           /\ \A r \in DOMAIN rooms :
                 Range(rooms[r].users) = {last'.c} => r \notin DOMAIN rooms'
           /\ last'.c \notin DOMAIN userNames' ]_vars

\* A disconnect just emptied two rooms: both were deleted during one scan.
C11_Witness ==
    /\ last.op = "disconnect"
    /\ Len(out) = 2
    /\ \A i \in 1..Len(out) : out[i].via \notin DOMAIN rooms
    /\ rooms = EmptyMap

C13_JoinBelowCapacitySucceeds ==
    [][ (/\ last'.op = "join-room"
         /\ last'.roomId \in DOMAIN rooms
         /\ Len(rooms[last'.roomId].users) < 10)
        => /\ last'.roomId \in DOMAIN rooms'
           /\ rooms'[last'.roomId].users = Append(rooms[last'.roomId].users, last'.c)
           /\ \E i \in Emitted(out', "room-joined") :
                 out'[i].to = {last'.c} /\ out'[i].roomId = last'.roomId
           /\ Emitted(out', "error") = {} ]_vars

\* A join-room was just accepted as the tenth member of a room.
C13_Witness ==
    /\ last.op = "join-room"
    /\ Emitted(out, "room-joined") # {}
    /\ Len(rooms[last.roomId].users) = 10
    /\ rooms[last.roomId].users[10] = last.c

\* C14: in every reachable state no member list holds the same connection
\* id twice.
C14_NoDuplicateMembers ==
    \A r \in DOMAIN rooms :
       Cardinality(Range(rooms[r].users)) = Len(rooms[r].users)

\* C15: a join-room by a connection that is already a member of the room
\* leaves the member list unchanged, and the requester still receives a
\* room-joined snapshot.
C15_RejoinIsNoOp ==
    [][ (/\ last'.op = "join-room"
         /\ last'.roomId \in DOMAIN rooms
         /\ last'.c \in Range(rooms[last'.roomId].users)
         /\ Len(rooms[last'.roomId].users) < 10)
        => /\ last'.roomId \in DOMAIN rooms'
           /\ rooms'[last'.roomId].users = rooms[last'.roomId].users
           /\ \E i \in Emitted(out', "room-joined") : out'[i].to = {last'.c} ]_vars

SignalKinds == {"webrtc-offer", "webrtc-answer", "webrtc-ice-candidate"}

\* C16: a signalling event from s with target t is delivered, with from = s,
\* to the connection whose id is t and to no other connection, whatever
\* value t has.
C16_SignalReachesTargetOnly ==
    last.op \in SignalKinds
    => /\ Len(out) = 1
       /\ out[1].ev = last.op
       /\ out[1].from = last.c
       /\ out[1].to \subseteq {last.to}
       /\ (last.to \in Conns \ {last.c} /\ sockets[last.to] = "open")
             => out[1].to = {last.to}

\* C17: a create-room never produces the id of a room that is in the room
\* table, so it never replaces the member list or creator of a live room.
C17_CreatedIdIsFresh ==
    [][ last'.op = "create-room"
        => /\ last'.roomId \notin DOMAIN rooms
           /\ \A r \in DOMAIN rooms : r \in DOMAIN rooms' /\ rooms'[r] = rooms[r] ]_vars

\* C18: a join-room that fails (room not found or room full) emits exactly
\* one event, error, to the requester only; nothing else is emitted and the
\* requester's memberships (member lists and broadcast groups) are kept.
C18_FailedJoinOnlyErrors ==
    [][ (/\ last'.op = "join-room"
         /\ \/ last'.roomId \notin DOMAIN rooms
            \/ Len(rooms[last'.roomId].users) >= 10)
        => /\ Len(out') = 1
           /\ out'[1].ev = "error"
           /\ out'[1].to = {last'.c}
           /\ out'[1].message =
                 IF last'.roomId \in DOMAIN rooms THEN "Room is full"
                 ELSE "Room not found"
           /\ rooms' = rooms
           /\ groups' = groups ]_vars

\* A join-room was just refused while the requester is a member of a room.
C18_Witness ==
    /\ last.op = "join-room"
    /\ Emitted(out, "error") # {}
    /\ \E r \in DOMAIN rooms : last.c \in Range(rooms[r].users)

\* C19: a leave-room by c naming a room that does not exist, or a room c is
\* not a member of, changes neither the room table nor any member list and
\* emits no error.
C19_LeaveWithoutMembershipKeepsRooms ==
    [][ (/\ last'.op = "leave-room"
         /\ \/ last'.roomId \notin DOMAIN rooms
            \/ last'.c \notin Range(rooms[last'.roomId].users))
        => /\ rooms' = rooms
           /\ roomOrder' = roomOrder
           /\ Emitted(out', "error") = {} ]_vars

\* A leave-room just named a room that does not exist (it emitted nothing)
\* while another room is live.
C19_Witness ==
    /\ last.op = "leave-room"
    /\ out = <<>>
    /\ last.roomId \notin DOMAIN rooms
    /\ rooms # EmptyMap

\* The state a handler result r leaves behind, with the sockets as given.
After(S, socks, r) ==
    State(S.variant, socks, r.rooms, r.roomOrder, r.userNames, S.userName, r.groups)

\* C20: for a member c of room R with other members present, leave-room(R)
\* and disconnect of c give the same room table in either order, c is in no
\* room, and every remaining member of R receives user-left with userId = c
\* for R exactly once in total.
C20_LeaveAndDisconnectCommute ==
    [][ last'.op = "disconnect"
        => \A r \in DOMAIN rooms :
              (/\ last'.c \in Range(rooms[r].users)
               /\ Range(rooms[r].users) # {last'.c})
              => LET c == last'.c
                     \* disconnect (this step), then leave-room
                     dl == LeaveRoomHandler(CurrentNext, c, r)
                     \* leave-room, then disconnect
                     l == LeaveRoomHandler(Current, c, r)
                     ld == DisconnectHandler(After(Current, sockets', l), c)
                 IN  /\ dl.rooms = ld.rooms
                     /\ \A x \in DOMAIN dl.rooms : c \notin Range(dl.rooms[x].users)
                     /\ \A m \in Range(rooms[r].users) \ {c} :
                           /\ LeftReceived(out' \o dl.out, m, r, c) = 1
                           /\ LeftReceived(l.out \o ld.out, m, r, c) = 1 ]_vars

\* A step that takes c out of room r by c's own request: c's leave-room
\* naming r, or c's disconnect.
OwnExit(c, r) ==
    /\ last'.c = c
    /\ \/ last'.op = "disconnect"
       \/ last'.op = "leave-room" /\ last'.roomId = r

\* C21: a member c of room R stays in R's member list across every event
\* other than c's own leave-room for R and c's own disconnect; no event of
\* another connection removes c from R.
C21_MemberUntilOwnExit ==
    [][ \A r \in DOMAIN rooms : \A c \in Range(rooms[r].users) :
           ~ OwnExit(c, r)
           => r \in DOMAIN rooms' /\ c \in Range(rooms'[r].users) ]_vars

\* C22: when a member of room X creates a room or successfully joins another
\* room Y, X keeps its member list and creator (the connection stays a member
\* of X) and the connection is a member of the new room as well.
C22_IndependentNewMembership ==
    [][ \A x \in DOMAIN rooms :
           (/\ last'.c \in Range(rooms[x].users)
            /\ \/ last'.op = "create-room"
               \/ /\ last'.op = "join-room"
                  /\ last'.roomId # x
                  /\ Emitted(out', "room-joined") # {})
           => /\ x \in DOMAIN rooms'
              /\ rooms'[x] = rooms[x]
              /\ last'.roomId \in DOMAIN rooms'
              /\ last'.c \in Range(rooms'[last'.roomId].users) ]_vars

\* The room-created / room-joined calls of a handler.
Confirmations(events) ==
    Emitted(events, "room-created") \cup Emitted(events, "room-joined")

\* C23: in the servers whose create-room / join-room carry a requested name
\* (src/server.js, src/unnamed/part_002), after a create-room or a
\* successful join-room with requested name n the registry maps the
\* connection to n when n is non-empty and to 'Anonymous' otherwise,
\* whatever entry it held before, and the userName of the room-created /
\* room-joined event is that registry value.
C23_RegisteredNameIsResolvedName ==
    [][ (/\ ClientNames(variant)
         /\ \/ last'.op = "create-room"
            \/ last'.op = "join-room" /\ Emitted(out', "room-joined") # {})
        => /\ last'.c \in DOMAIN userNames'
           /\ userNames'[last'.c] =
                 IF last'.userName = "" THEN "Anonymous" ELSE last'.userName
           /\ Confirmations(out') # {}
           /\ \A i \in Confirmations(out') :
                 out'[i].userName = userNames'[last'.c] ]_vars

\* A join-room without a name was just accepted from a connection that is
\* listed in the room under the name 'Anonymous' while it is also the
\* creator of another live room (so it had registered before).
C23_Witness ==
    /\ ClientNames(variant)
    /\ last.op = "join-room"
    /\ last.userName = ""
    /\ \E i \in Emitted(out, "room-joined") : out[i].userName = "Anonymous"
    /\ \E r \in DOMAIN rooms : r # last.roomId /\ rooms[r].creator = last.c

\* C24: a disconnect of a connection that is in no member list leaves the
\* room table and every member list as they were and emits neither
\* user-left nor error to anyone.
C24_DisconnectOutsideRoomsIsSafe ==
    [][ (/\ last'.op = "disconnect"
         /\ \A r \in DOMAIN rooms : last'.c \notin Range(rooms[r].users))
        => /\ rooms' = rooms
           /\ roomOrder' = roomOrder
           /\ Emitted(out', "user-left") = {}
           /\ Emitted(out', "error") = {} ]_vars

\* A disconnect just emitted nothing (the connection was in no room) while
\* a room with members is live.
C24_Witness ==
    /\ last.op = "disconnect"
    /\ out = <<>>
    /\ \E r \in DOMAIN rooms : rooms[r].users # <<>>

\* C25: an audio or signalling event is never delivered to a connection
\* that has disconnected and never answered with an error, and it changes
\* neither the room table nor the name registry; a signalling event whose
\* target is a disconnected connection is delivered to nobody.
C25_RelayToDisconnectedIsDropped ==
    [][ last'.op \in SignalKinds \cup {"audio"}
        => /\ \A i \in 1..Len(out') : \A c \in out'[i].to : sockets'[c] # "closed"
           /\ (last'.to \in Conns /\ sockets'[last'.to] = "closed")
                 => \A i \in 1..Len(out') : out'[i].to = {}
           /\ Emitted(out', "error") = {}
           /\ rooms' = rooms
           /\ roomOrder' = roomOrder
           /\ userNames' = userNames ]_vars

\* A signalling event was just sent to a connection that has disconnected:
\* the one emit call reached nobody.
C25_Witness ==
    /\ last.op \in SignalKinds
    /\ last.to \in Conns
    /\ sockets[last.to] = "closed"
    /\ Len(out) = 1
    /\ out[1].to = {}
    /\ rooms # EmptyMap

\* The member list of room r in room table rms, <<>> when r is not live.
UsersOf(rms, r) == IF r \in DOMAIN rms THEN rms[r].users ELSE <<>>

\* C26: a member list is in join order: a successful join-room appends the
\* joiner at the end of the list, and a leave-room or disconnect takes out
\* the entries of the leaving connection only, the remaining members keeping
\* their relative order.
C26_MemberListInJoinOrder ==
    [][ /\ (last'.op = "join-room" /\ Emitted(out', "room-joined") # {})
           => UsersOf(rooms', last'.roomId)
                 = Append(UsersOf(rooms, last'.roomId), last'.c)
        /\ (last'.op = "leave-room" /\ last'.roomId \in DOMAIN rooms)
           => UsersOf(rooms', last'.roomId)
                 = Without(rooms[last'.roomId].users, last'.c)
        /\ last'.op = "disconnect"
           => \A r \in DOMAIN rooms :
                 UsersOf(rooms', r) = Without(rooms[r].users, last'.c) ]_vars

\* A join-room was just accepted by a room that had several members: the
\* joiner is the last entry of a list of at least three.
C26_Witness ==
    /\ last.op = "join-room"
    /\ Emitted(out, "room-joined") # {}
    /\ Len(rooms[last.roomId].users) >= 3
    /\ rooms[last.roomId].users[Len(rooms[last.roomId].users)] = last.c
    /\ rooms[last.roomId].users[1] # last.c

\* C27: create-room records the creating connection as the room's creator;
\* no join-room, leave-room or disconnect changes the creator of a room
\* that stays live; and the isCreator flag of room-joined is true exactly
\* when the joiner is the creator of the joined room.
C27_CreatorIsFixed ==
    [][ /\ last'.op = "create-room"
           => rooms'[last'.roomId].creator = last'.c
        /\ last'.op \in {"join-room", "leave-room", "disconnect"}
           => \A r \in DOMAIN rooms \cap DOMAIN rooms' :
                 rooms'[r].creator = rooms[r].creator
        /\ last'.op = "join-room"
           => \A i \in Emitted(out', "room-joined") :
                 out'[i].isCreator = (rooms[last'.roomId].creator = last'.c) ]_vars

\* The creator of a room just joined it again behind another member (it had
\* left the room, which stayed live): room-joined says isCreator.
C27_Witness ==
    /\ last.op = "join-room"
    /\ \E i \in Emitted(out, "room-joined") : out[i].isCreator
    /\ rooms[last.roomId].creator = last.c
    /\ rooms[last.roomId].users[1] # last.c
    /\ Cardinality(Range(rooms[last.roomId].users)) = Len(rooms[last.roomId].users)

\* C28: after a leave-room by c the name registry has no entry for c,
\* whether the named room exists or not and whether c was in it or not.
C28_LeaveRoomForgetsName ==
    [][ last'.op = "leave-room" => last'.c \notin DOMAIN userNames' ]_vars

\* A leave-room just named a room that does not exist, sent by a connection
\* that is a member of a live room: its registry entry is gone.
C28_Witness ==
    /\ HasNames(variant)
    /\ last.op = "leave-room"
    /\ last.roomId \notin DOMAIN rooms
    /\ \E r \in DOMAIN rooms : last.c \in Range(rooms[r].users)
    /\ last.c \notin DOMAIN userNames
    /\ DOMAIN userNames # {}

\* C29: in the servers that keep a name registry, every connection listed in
\* a live room has a registry entry, so the names sent for a current member
\* (room-joined users, audio fromName, user-left userName) are defined.
C29_MembersHaveNames ==
    HasNames(variant)
    => /\ \A r \in DOMAIN rooms : Range(rooms[r].users) \subseteq DOMAIN userNames
       /\ \A i \in Emitted(out, "room-joined") :
             \A k \in 1..Len(out[i].users) : out[i].users[k].name # Undefined
       /\ \A i \in Emitted(out, "audio") \cup Emitted(out, "user-left") :
             (/\ out[i].via \in DOMAIN rooms
              /\ out[i].from \in Range(rooms[out[i].via].users))
             => out[i].userName # Undefined

\* C30: for every live room R the broadcast group named R holds exactly the
\* connections of R's member list, and the broadcast group of a room id
\* that is not live is empty.
C30_GroupsMatchMemberLists ==
    \A r \in DOMAIN groups :
       groups[r] = IF r \in DOMAIN rooms THEN Range(rooms[r].users) ELSE {}

\* C31: an audio event naming room R is delivered only when its sender is
\* in R's member list: an audio event of a connection that is not a member
\* of R reaches nobody.
C31_AudioFromMembersOnly ==
    (/\ last.op = "audio"
     /\ \/ last.roomId \notin DOMAIN rooms
        \/ last.c \notin Range(rooms[last.roomId].users))
    => \A i \in 1..Len(out) : out[i].to = {}

\* C32: a user-left with userId = c that reaches some connection was
\* broadcast to a room whose member list held c immediately before the
\* leave-room or disconnect that emitted it.
C32_UserLeftOnlyForMembers ==
    [][ \A i \in Emitted(out', "user-left") :
           out'[i].to # {}
           => /\ out'[i].via \in DOMAIN rooms
              /\ out'[i].from \in Range(rooms[out'[i].via].users) ]_vars

\* The connections listed in room r of room table rms (none if r is not live).
MembersOf(rms, r) == Range(UsersOf(rms, r))

\* C33: a join-room or leave-room naming room R leaves every other live room
\* with the same member list and creator, and no event of it reaches a
\* member of another room that is neither the requester nor a member of R.
C33_JoinLeaveTouchOneRoom ==
    [][ last'.op \in {"join-room", "leave-room"}
        => /\ \A r \in DOMAIN rooms \ {last'.roomId} :
                 r \in DOMAIN rooms' /\ rooms'[r] = rooms[r]
           /\ \A r \in DOMAIN rooms \ {last'.roomId} :
                 \A m \in MembersOf(rooms, r) \ {last'.c} :
                    m \notin MembersOf(rooms, last'.roomId)
                    => \A i \in 1..Len(out') : m \notin out'[i].to ]_vars

\* C34: in every state in which no connection is open (every connection
\* that ever sent an event has disconnected), the room table is empty and
\* the name registry is empty.
C34_NothingLeaked ==
    (\A c \in Conns : sockets[c] # "open")
    => rooms = EmptyMap /\ roomOrder = <<>> /\ userNames = EmptyMap

\* The last open connection just disconnected out of a room it was in,
\* after another connection had come and gone.
C34_Witness ==
    /\ \A c \in Active : sockets[c] = "closed"
    /\ last.op = "disconnect"
    /\ Emitted(out, "user-left") # {}
    /\ rooms = EmptyMap
    /\ userNames = EmptyMap

\* C35: when join-room events of two different connections for a room that
\* holds 9 members are processed one after the other, in either order, the
\* first is accepted, the second is answered with the error 'Room is full',
\* and the room ends with exactly 10 members.
C35_TwoJoinsForLastPlace ==
    [][ (/\ last'.op = "join-room"
         /\ last'.roomId \in DOMAIN rooms
         /\ Len(rooms[last'.roomId].users) = 9)
        => /\ \E i \in Emitted(out', "room-joined") : out'[i].to = {last'.c}
           /\ Emitted(out', "error") = {}
           /\ \A b \in Active \ {last'.c}, name \in RequestedNames :
                 sockets'[b] = "open"
                 => LET second == JoinRoomHandler(CurrentNext, b, last'.roomId, name)
                    IN  /\ second.out = << ErrorEvent(b, "Room is full") >>
                        /\ Emitted(second.out, "room-joined") = {}
                        /\ Len(second.rooms[last'.roomId].users) = 10 ]_vars

\* A join-room was just refused with 'Room is full' by a room whose tenth
\* member is the other active connection, which joined before it.
C35_Witness ==
    /\ last.op = "join-room"
    /\ out = << ErrorEvent(last.c, "Room is full") >>
    /\ last.roomId \in DOMAIN rooms
    /\ Len(rooms[last.roomId].users) = 10
    /\ rooms[last.roomId].users[10] \in Active \ {last.c}
    /\ last.c \notin Range(rooms[last.roomId].users)

====
